---------------------------- MODULE Spec2Model ----------------------------
(***************************************************************************)
(* Wikipedia search engine (Wiki_Search_Engine-PySpark.ipynb).             *)
(*                                                                         *)
(* Two state machines are modelled:                                        *)
(*                                                                         *)
(*   Spec     the index build cell (lines 177-187) followed by the query   *)
(*            cell (lines 223-229): HashingTF, IDF.fit as a per-partition  *)
(*            fold plus a merge of the partial aggregators, IDF.transform, *)
(*            the single-bucket lookup, zip with the titles and            *)
(*            sortByKey(ascending=False).take.                             *)
(*   SpecPre  the preprocessing loop (lines 108-124), one step per token.  *)
(*                                                                         *)
(* Floating point weights are held as fixed point integers: a weight w is  *)
(* held as round(w * 10^6) with the natural logarithm read from a table.   *)
(***************************************************************************)
EXTENDS Integers, Sequences, FiniteSets, TLC

(***************************************************************************)
(* Bounds of the model.                                                    *)
(***************************************************************************)
MaxDocs == 3
MaxParts == 2
MaxTokens == 4

(***************************************************************************)
(* Program constants.                                                      *)
(***************************************************************************)
numFeatures == 20000000

(***************************************************************************)
(* Inputs.  A line of articles_lemma.txt is held as the sequence of its    *)
(* tab separated fields, line.split('\t'): "title \t body" is the pair of  *)
(* the title and the body, the body already split on white space; an      *)
(* empty line, which the preprocessing loop writes for a document without *)
(* a tab-bearing token, is the one field "".  The document ID of a line   *)
(* is its position in the corpus, and the title of the well-formed line   *)
(* at position i is TitleAt[i].                                            *)
(***************************************************************************)
Tokens ==
  {"tabriz", "iran", "carpet", "paris", "france", "aiqek", "jrpmbc", "tokyo"}

TitleAt == <<"D1", "D2", "D3", "D4", "D5">>

Bodies ==
  { <<"tabriz", "iran">>,
    <<"tabriz", "carpet">>,
    <<"paris", "france">>,
    <<"tabriz", "aiqek", "jrpmbc">> }

Queries ==
  { <<>>,
    <<"tabriz">>,
    <<"tokyo">>,
    <<"iran", "tabriz">>,
    <<"tabriz", "tabriz">> }

\* IDF(minDocFreq=10) in the notebook; the threshold is a parameter of IDF.
MinDocFreqs == {1, 2, 10}

\* take(10) in the notebook; the number of results is a parameter of take.
TakeSizes == {2, 10}

(***************************************************************************)
(* Sequence helpers.                                                       *)
(***************************************************************************)
Min(S) == CHOOSE x \in S : \A y \in S : x <= y

RECURSIVE SortedSeq(_)
SortedSeq(S) ==
  IF S = {} THEN <<>> ELSE <<Min(S)>> \o SortedSeq(S \ {Min(S)})

RECURSIVE Flatten(_)
Flatten(ss) == IF ss = <<>> THEN <<>> ELSE Head(ss) \o Flatten(Tail(ss))

(***************************************************************************)
(* sc.textFile: the corpus cut into contiguous, non-empty partitions.      *)
(***************************************************************************)
Line(i, body) == <<TitleAt[i], body>>

EmptyLine == <<"">>

\* the corpora of n lines: any line may be empty
CorporaOf(n) ==
  UNION { { [i \in 1..n |-> IF i \in e THEN EmptyLine ELSE Line(i, f[i])] :
              f \in [1..n -> Bodies] } :
          e \in SUBSET (1..n) }

Corpora == UNION { CorporaOf(n) : n \in 1..MaxDocs }

\* cuts: the set of positions after which a new partition starts
textFile(corpus, cuts) ==
  LET b == <<0>> \o SortedSeq(cuts) \o <<Len(corpus)>>
  IN  [p \in 1..(Len(b) - 1) |-> SubSeq(corpus, b[p] + 1, b[p + 1])]

RawDatas ==
  UNION { { textFile(c, cuts) :
              cuts \in { s \in SUBSET (1..(Len(c) - 1)) :
                           Cardinality(s) + 1 <= MaxParts } } :
          c \in Corpora }

(***************************************************************************)
(* HashingTF (pyspark.mllib.feature): indexOf is hash(term) % numFeatures, *)
(* transform counts the terms of a document per bucket.  hash is the       *)
(* CPython 2.7 string hash, whose value depends on the width of the C long *)
(* of the build: 32 bits (Windows) or 64 bits (Linux, macOS).  PyHash      *)
(* holds the hash of each token on either build as a sign and the base 100 *)
(* digits of its magnitude, the most significant first.                    *)
(***************************************************************************)
LongBits == {32, 64}

PyHash32 ==
  [t \in Tokens |->
     CASE t = "tabriz"  -> [neg |-> FALSE, digits |-> <<12, 49, 69, 32, 70>>]
       [] t = "iran"    -> [neg |-> TRUE, digits |-> <<4, 8, 47, 34, 4>>]
       [] t = "carpet"  -> [neg |-> FALSE, digits |-> <<4, 89, 92, 66, 87>>]
       [] t = "paris"   -> [neg |-> TRUE, digits |-> <<18, 54, 93, 90, 96>>]
       [] t = "france"  -> [neg |-> TRUE, digits |-> <<3, 87, 98, 71, 53>>]
       [] t = "aiqek"   -> [neg |-> FALSE, digits |-> <<20, 29, 69, 32, 70>>]
       [] t = "jrpmbc"  -> [neg |-> TRUE, digits |-> <<5, 93, 78, 16, 74>>]
       [] t = "tokyo"   -> [neg |-> TRUE, digits |-> <<18, 69, 62, 49, 85>>]]

PyHash64 ==
  [t \in Tokens |->
     CASE t = "tabriz"  -> [neg |-> TRUE, digits |-> <<9, 11, 76, 7, 90, 33, 0, 36, 67, 62>>]
       [] t = "iran"    -> [neg |-> TRUE, digits |-> <<6, 49, 27, 38, 6, 64, 82, 51, 57, 72>>]
       [] t = "carpet"  -> [neg |-> FALSE, digits |-> <<5, 33, 65, 95, 95, 92, 55, 37, 99, 99>>]
       [] t = "paris"   -> [neg |-> TRUE, digits |-> <<4, 66, 83, 99, 71, 5, 11, 30, 87, 60>>]
       [] t = "france"  -> [neg |-> FALSE, digits |-> <<3, 15, 15, 74, 97, 5, 20, 29, 16, 31>>]
       [] t = "aiqek"   -> [neg |-> TRUE, digits |-> <<2, 29, 5, 96, 41, 44, 49, 7, 99, 78>>]
       [] t = "jrpmbc"  -> [neg |-> TRUE, digits |-> <<3, 0, 66, 53, 53, 64, 60, 36, 67, 62>>]
       [] t = "tokyo"   -> [neg |-> FALSE, digits |-> <<7, 35, 39, 40, 56, 25, 23, 70, 36, 55>>]]

PyHash(bits) == IF bits = 32 THEN PyHash32 ELSE PyHash64

\* |h| % n, digit by digit
RECURSIVE modDigits(_, _, _)
modDigits(digits, r, n) ==
  IF digits = <<>> THEN r
  ELSE modDigits(Tail(digits), (r * 100 + Head(digits)) % n, n)

\* Python's h % n for n > 0: the result is in 0..n-1
pyMod(h, n) ==
  LET r == modDigits(h.digits, 0, n)
  IN  IF h.neg /\ r # 0 THEN n - r ELSE r

\* hash(term) % numFeatures of every token, on either build
BucketOf ==
  [bits \in LongBits |-> [t \in Tokens |-> pyMod(PyHash(bits)[t], numFeatures)]]

VARIABLE longBits   \* the width of the C long of the build

indexOf(term) == BucketOf[longBits][term]

Buckets == {indexOf(t) : t \in Tokens}

\* freq[i] = freq.get(i, 0) + 1.0 for each term in turn
RECURSIVE HashingTF_freq(_, _)
HashingTF_freq(document, freq) ==
  IF document = <<>> THEN freq
  ELSE LET i == indexOf(Head(document))
           n == IF i \in DOMAIN freq THEN freq[i] ELSE 0
       IN  HashingTF_freq(Tail(document),
             [j \in DOMAIN freq \cup {i} |-> IF j = i THEN n + 1 ELSE freq[j]])

\* a sparse vector: a function from its stored indices to its values
HashingTF_transform(document) == HashingTF_freq(document, <<>>)

\* SparseVector.indices: the stored indices in ascending order
indices(v) == SortedSeq(DOMAIN v)

\* SparseVector.__getitem__: the stored value, 0.0 for an index not stored
GetItem(v, i) == IF i \in DOMAIN v THEN v[i] ELSE 0


(***************************************************************************)
(* IDF(minDocFreq).fit(tf) (org.apache.spark.mllib.feature.IDF): a         *)
(* DocumentFrequencyAggregator is folded over each partition (add) and the *)
(* partial aggregators are combined (merge); idf() then turns the counts   *)
(* into weights.  Vectors of size numFeatures are held on Buckets, the     *)
(* buckets some token hashes to; every other bucket stays 0 throughout.    *)
(***************************************************************************)
\* round(ln(n) * 10^6) for n = 1..8
LnTable == <<0, 693147, 1098612, 1386294, 1609438, 1791759, 1945910, 2079442>>

log(num, den) == LnTable[num] - LnTable[den]

ZeroAgg == [m |-> 0, df |-> [b \in Buckets |-> 0]]

\* add(doc): df(k) += 1 for each stored value > 0; m += 1
add(agg, doc) ==
  [m  |-> agg.m + 1,
   df |-> [b \in Buckets |->
             agg.df[b] + (IF b \in DOMAIN doc /\ doc[b] > 0 THEN 1 ELSE 0)]]

\* a merge that overwrites the counts instead of adding them
merge_overwrite(agg, other) ==
  [m  |-> agg.m + other.m,
   df |-> other.df]

\* merge(other): m += other.m; df += other.df
merge(agg, other) ==
  [m  |-> agg.m + other.m,
   df |-> [b \in Buckets |-> agg.df[b] + other.df[b]]]

\* the fold of one partition of tf, starting from the zero aggregator
RECURSIVE seqOp(_, _)
seqOp(agg, part) ==
  IF part = <<>> THEN agg ELSE seqOp(add(agg, Head(part)), Tail(part))

\* idf() without the minDocFreq filter
idfVector_unfiltered(agg, minDocFreq) ==
  [b \in Buckets |-> log(agg.m + 1, agg.df[b] + 1)]

\* idf(): log((m + 1) / (df(j) + 1)) where df(j) >= minDocFreq, else 0
idfVector(agg, minDocFreq) ==
  [b \in Buckets |->
     IF agg.df[b] >= minDocFreq THEN log(agg.m + 1, agg.df[b] + 1) ELSE 0]

\* IDFModel.transform of one sparse vector: the stored indices are kept and
\* each stored value is multiplied by the weight of its index
IDFModel_transform(idfVec, v) == [i \in DOMAIN v |-> v[i] * idfVec[i]]

(***************************************************************************)
(* The query cell.                                                         *)
(***************************************************************************)
\* what line.split('\t')[1] raises on a line without a tab
IndexError == <<"IndexError">>

\* rawData.map(lambda line : line.split('\t')[1].split()); a line is held as
\* its tab-separated fields, the second one as its tokens
documents(part) ==
  [i \in 1..Len(part) |-> IF Len(part[i]) >= 2 THEN part[i][2] ELSE IndexError]

\* no line of the partition makes the map raise
hasBody(part) == \A i \in 1..Len(part) : documents(part)[i] # IndexError

\* rawData.map(lambda line : line.split('\t')[0])
titles(part) == [i \in 1..Len(part) |-> part[i][1]]

\* hashingTF.transform(documents), one partition
tfOf(part) == [i \in 1..Len(part) |-> HashingTF_transform(documents(part)[i])]

\* the last stored index instead of the first
indicesLast(QueryTF) == indices(QueryTF)[Len(indices(QueryTF))]

\* QueryTF.indices[0]
indices0(QueryTF) == indices(QueryTF)[1]

\* tfidf.map(lambda x: x[QueryHashValue]), one partition
QueryRelevance(part, hashValue) ==
  [i \in 1..Len(part) |-> GetItem(part[i], hashValue)]

\* a zip that pairs the left side with the right side read backwards
zip_reversed(left, right) ==
  [i \in 1..Len(left) |-> <<left[i], right[Len(right) + 1 - i]>>]

\* RDD.zip, one partition: the i-th elements of both sides are paired
zip(left, right) == [i \in 1..Len(left) |-> <<left[i], right[i]>>]

\* a sort that puts a pair before the pairs of equal key already placed
RECURSIVE insertDesc_unstable(_, _)
insertDesc_unstable(sorted, kv) ==
  IF sorted = <<>> THEN <<kv>>
  ELSE IF Head(sorted)[1] > kv[1]
       THEN <<Head(sorted)>> \o insertDesc_unstable(Tail(sorted), kv)
       ELSE <<kv>> \o sorted

\* sorted(iterator, key, reverse=True): a stable sort, the greatest key first
RECURSIVE insertDesc(_, _)
insertDesc(sorted, kv) ==
  IF sorted = <<>> THEN <<kv>>
  ELSE IF Head(sorted)[1] >= kv[1]
       THEN <<Head(sorted)>> \o insertDesc(Tail(sorted), kv)
       ELSE <<kv>> \o sorted

RECURSIVE sortPartition(_, _)
sortPartition(sorted, rest) ==
  IF rest = <<>> THEN sorted
  ELSE sortPartition(insertDesc(sorted, Head(rest)), Tail(rest))

\* the shuffle of sortByKey: the reducer reads the blocks of the map
\* partitions in the order fetched
RECURSIVE shuffleRead(_, _)
shuffleRead(parts, fetched) ==
  IF fetched = <<>> THEN <<>>
  ELSE parts[Head(fetched)] \o shuffleRead(parts, Tail(fetched))

\* setMaster("local[*]"): every shuffle block is local to the one executor
\* and the blocks are read in the order of the map partitions
MapOrder(n) == [i \in 1..n |-> i]

\* pairs of equal key go to the same range and the ranges follow each other
\* by descending key: one stable sort of what the shuffle delivers
sortByKey(parts) ==
  sortPartition(<<>>, shuffleRead(parts, MapOrder(Len(parts))))

take(s, num) == SubSeq(s, 1, IF Len(s) < num THEN Len(s) ELSE num)

(***************************************************************************)
(* State of the build and query pipeline.                                  *)
(***************************************************************************)
VARIABLES
  pc,             \* position in the notebook
  rawData,        \* the partitions of the corpus
  status,         \* per partition: "todo", "folded" or "merged"
  aggs,           \* per partition: its DocumentFrequencyAggregator
  fitInput,       \* the aggregator idf() was computed from
  idf,            \* the IDFModel: [minDocFreq, idf], or NoModel
  tfidf,          \* the partitions of the tf-idf vectors
  query,          \* the query's token sequence
  QueryHashValue, \* QueryTF.indices[0]
  zippedResults,  \* the partitions of (score, title) pairs
  written,        \* the partitions whose shuffle output is written
  num,            \* the argument of take
  results         \* the (score, title) pairs taken

(***************************************************************************)
(* State of the preprocessing loop.                                        *)
(***************************************************************************)
VARIABLES
  doc,            \* the tokens of the current line
  pos,            \* the number of tokens consumed
  title_words,    \* the orth_ of the tokens collected for the title
  passed_title,   \* the tab-bearing token has been seen
  out,            \* what was written for the current line
  ppc             \* "loop" while in the token loop, "eol" after the newline

pipeVars ==
  <<longBits, pc, rawData, status, aggs, fitInput, idf, tfidf, query, QueryHashValue,
    zippedResults, written, num, results>>

preVars == <<doc, pos, title_words, passed_title, out, ppc>>

vars == <<pipeVars, preVars>>

NoModel == [minDocFreq |-> -1, idf |-> <<>>]
NoHash == -1

PartIds == 1..Len(rawData)

corpus == Flatten(rawData)

PipeInit ==
  /\ longBits \in LongBits
  /\ rawData \in RawDatas
  /\ pc = "fit"
  /\ status = [p \in 1..Len(rawData) |-> "todo"]
  /\ aggs = [p \in 1..Len(rawData) |-> ZeroAgg]
  /\ fitInput = ZeroAgg
  /\ idf = NoModel
  /\ tfidf = <<>>
  /\ query = <<>>
  /\ QueryHashValue = NoHash
  /\ zippedResults = <<>>
  /\ written = {}
  /\ num = 0
  /\ results = <<>>

PreIdle ==
  /\ doc = <<>>
  /\ pos = 0
  /\ title_words = <<>>
  /\ passed_title = FALSE
  /\ out = <<>>
  /\ ppc = "eol"

\* a task of the aggregation folds its partition of tf; on a line without
\* a tab line.split('\t')[1] raises IndexError and the job, the first to
\* evaluate documents, fails
SeqOp(p) ==
  /\ pc = "fit"
  /\ status[p] = "todo"
  /\ IF hasBody(rawData[p])
     THEN /\ aggs' = [aggs EXCEPT ![p] = seqOp(ZeroAgg, tfOf(rawData[p]))]
          /\ status' = [status EXCEPT ![p] = "folded"]
          /\ pc' = pc
     ELSE /\ pc' = "build_error"
          /\ UNCHANGED <<aggs, status>>
  /\ UNCHANGED <<rawData, fitInput, idf, tfidf, query, QueryHashValue,
                 zippedResults, num, results>>
  /\ UNCHANGED <<longBits, written, preVars>>

\* two partial aggregators are combined, in any order
CombOp(p, q) ==
  /\ pc = "fit"
  /\ p # q
  /\ status[p] = "folded"
  /\ status[q] = "folded"
  /\ aggs' = [aggs EXCEPT ![p] = merge(aggs[p], aggs[q])]
  /\ status' = [status EXCEPT ![q] = "merged"]
  /\ UNCHANGED <<pc, rawData, fitInput, idf, tfidf, query, QueryHashValue,
                 zippedResults, num, results>>
  /\ UNCHANGED <<longBits, written, preVars>>

\* a job that hands over the first partial aggregator that is ready
aggregated_early(p) == status[p] = "folded"

\* the aggregation job has ended: every partition is folded and all the
\* partial aggregators are combined into the one held at p
aggregated(p) ==
  /\ status[p] = "folded"
  /\ \A q \in PartIds \ {p} : status[q] = "merged"

\* idf = IDF(minDocFreq).fit(tf)
Fit(p, minDocFreq) ==
  /\ pc = "fit"
  /\ aggregated(p)
  /\ aggs[p].m > 0
  /\ fitInput' = aggs[p]
  /\ idf' = [minDocFreq |-> minDocFreq, idf |-> idfVector(aggs[p], minDocFreq)]
  /\ pc' = "transform"
  \* the partial aggregators of the job are released when fit returns
  /\ status' = [q \in PartIds |-> "merged"]
  /\ aggs' = [q \in PartIds |-> ZeroAgg]
  /\ UNCHANGED <<rawData, tfidf, query, QueryHashValue, zippedResults, num,
                 results>>
  /\ UNCHANGED <<longBits, written, preVars>>

\* tfidf = idf.transform(tf); tfidf.cache()
Transform ==
  /\ pc = "transform"
  /\ tfidf' = [p \in PartIds |->
                 LET tf == tfOf(rawData[p])
                 IN  [i \in 1..Len(tf) |-> IDFModel_transform(idf.idf, tf[i])]]
  /\ pc' = "query"
  /\ UNCHANGED <<rawData, status, aggs, fitInput, idf, query, QueryHashValue,
                 zippedResults, num, results>>
  /\ UNCHANGED <<longBits, written, preVars>>

\* QueryTF = hashingTF.transform(q); QueryHashValue = QueryTF.indices[0];
\* QueryRelevance = tfidf.map(...); zippedResults = QueryRelevance.zip(titles)
Query(q) ==
  /\ pc = "query"
  /\ query' = q
  /\ LET QueryTF == HashingTF_transform(q)
     IN  IF indices(QueryTF) = <<>>
         THEN \* indices[0] of an empty array: IndexError
              /\ pc' = "query_error"
              /\ UNCHANGED <<QueryHashValue, zippedResults>>
         ELSE /\ QueryHashValue' = indices0(QueryTF)
              /\ zippedResults' =
                   [p \in PartIds |->
                      zip(QueryRelevance(tfidf[p], indices0(QueryTF)),
                          titles(rawData[p]))]
              /\ pc' = "sort"
  /\ UNCHANGED <<rawData, status, aggs, fitInput, idf, tfidf, num, results>>
  /\ UNCHANGED <<longBits, written, preVars>>

\* sortByKey, map side: the task of one partition writes its shuffle
\* output; the tasks of the partitions finish in any order
ShuffleWrite(p) ==
  /\ pc = "sort"
  /\ p \notin written
  /\ written' = written \cup {p}
  /\ UNCHANGED <<pc, rawData, status, aggs, fitInput, idf, tfidf, query,
                 QueryHashValue, zippedResults, num, results>>
  /\ UNCHANGED <<longBits, preVars>>

\* zippedResults.sortByKey(ascending=False).take(n): the reduce side, once
\* every map output is written
SortTake(n) ==
  /\ pc = "sort"
  /\ written = PartIds
  /\ num' = n
  /\ results' = take(sortByKey(zippedResults), n)
  /\ pc' = "done"
  /\ UNCHANGED <<rawData, status, aggs, fitInput, idf, tfidf, query,
                 QueryHashValue, zippedResults>>
  /\ UNCHANGED <<longBits, written, preVars>>

Init == PipeInit /\ PreIdle

Next ==
  \/ \E p \in PartIds : SeqOp(p)
  \/ \E p, q \in PartIds : CombOp(p, q)
  \/ \E p \in PartIds, m \in MinDocFreqs : Fit(p, m)
  \/ Transform
  \/ \E q \in Queries : Query(q)
  \/ \E p \in PartIds : ShuffleWrite(p)
  \/ \E n \in TakeSizes : SortTake(n)

Spec == Init /\ [][Next]_vars

(***************************************************************************)
(* The preprocessing loop (lines 108-124).  A candidate is a spaCy token   *)
(* with its orth_, lemma_ and pos_; a line is the sequence of its tokens.  *)
(* A string is held as the sequence of its chunks: a tab, a newline, a     *)
(* space, or a run of other characters.                                    *)
(***************************************************************************)
TAB == "\t"

NL == "\n"

Candidates ==
  { [orth |-> <<"Tabriz">>,  lemma |-> <<"tabriz">>, pos |-> "PROPN"],
    [orth |-> <<"The">>,     lemma |-> <<"the">>,    pos |-> "DET"],
    [orth |-> <<",">>,       lemma |-> <<",">>,      pos |-> "PUNCT"],
    [orth |-> <<"-">>,       lemma |-> <<"-">>,      pos |-> "PUNCT"],
    [orth |-> <<"carpets">>, lemma |-> <<"carpet">>, pos |-> "NOUN"],
    [orth |-> <<"xqzt">>,    lemma |-> <<"xqzt">>,   pos |-> "NOUN"],
    [orth |-> <<TAB>>,       lemma |-> <<TAB>>,      pos |-> "SPACE"],
    [orth |-> <<TAB, NL>>,   lemma |-> <<TAB, NL>>,  pos |-> "SPACE"],
    [orth |-> <<"a", TAB, "b">>, lemma |-> <<"a", TAB, "b">>, pos |-> "X"] }

\* set(raw_text.split()) of titles.txt
wiki_title_words == {<<"tabriz">>, <<"-">>}

\* set(w.lower() for w in nltk.corpus.words.words())
english_vocab == {<<"the">>, <<"carpet">>}

\* set(stopwords.words("english"))
stop_words == {<<"the">>}

\* '\t' in candidate.lemma_
hasTab(candidate) ==
  \E k \in 1..Len(candidate.lemma) : candidate.lemma[k] = TAB

PreLines ==
  UNION { [1..n -> Candidates] : n \in 0..MaxTokens }

\* lines 114-115
keep(candidate) ==
  /\ candidate.lemma \notin stop_words
  /\ candidate.pos # "PUNCT"
  /\ (candidate.lemma \in english_vocab \/ candidate.lemma \in wiki_title_words)

\* u''.join(title_words)
join(words) == Flatten(words)

\* lines 112-122, the body of the loop for one candidate:
\* the triple of the new out, title_words and passed_title
loopBody(candidate, o, tw, passed) ==
  IF ~hasTab(candidate)
  THEN IF passed
       THEN IF keep(candidate)
            THEN <<Append(o, candidate.lemma \o <<" ">>), tw, passed>>
            ELSE <<o, tw, passed>>
       ELSE <<o, Append(tw, candidate.orth), passed>>
  ELSE <<Append(o, join(tw) \o candidate.orth), tw, TRUE>>

PipeIdle ==
  /\ longBits = 64
  /\ pc = "idle"
  /\ rawData = <<>>
  /\ status = <<>>
  /\ aggs = <<>>
  /\ fitInput = ZeroAgg
  /\ idf = NoModel
  /\ tfidf = <<>>
  /\ query = <<>>
  /\ QueryHashValue = NoHash
  /\ zippedResults = <<>>
  /\ written = {}
  /\ num = 0
  /\ results = <<>>

\* for doc in NLP.pipe(fo): title_words = []; passed_title = False.
\* Every iteration of the outer loop starts in such a state, with nothing of
\* the previous line left but the file written so far; out holds what is
\* written for the line at hand.
PreInit ==
  /\ doc \in PreLines
  /\ pos = 0
  /\ title_words = <<>>
  /\ passed_title = FALSE
  /\ out = <<>>
  /\ ppc = "loop"

\* for candidate in doc: ...
Candidate ==
  /\ ppc = "loop"
  /\ pos < Len(doc)
  /\ LET r == loopBody(doc[pos + 1], out, title_words, passed_title)
     IN  /\ out' = r[1]
         /\ title_words' = r[2]
         /\ passed_title' = r[3]
  /\ pos' = pos + 1
  /\ UNCHANGED <<doc, ppc>>
  /\ UNCHANGED pipeVars

\* out.write('\n')
EndOfLine ==
  /\ ppc = "loop"
  /\ pos = Len(doc)
  /\ out' = Append(out, <<"\n">>)
  /\ ppc' = "eol"
  /\ UNCHANGED <<doc, pos, title_words, passed_title>>
  /\ UNCHANGED pipeVars

InitPre == PipeIdle /\ PreInit

NextPre ==
  \/ Candidate
  \/ EndOfLine

SpecPre == InitPre /\ [][NextPre]_vars


(***************************************************************************)
(* Reference definitions for the properties: the quantities as the         *)
(* specification states them, computed from the corpus alone.              *)
(***************************************************************************)
DocIds == 1..Len(corpus)

BodyOf(d) == corpus[d][2]

DocId(title) == CHOOSE d \in 1..Len(TitleAt) : TitleAt[d] = title

\* the number of tokens of a body hashing to b
Count(body, b) == Cardinality({k \in 1..Len(body) : indexOf(body[k]) = b})

\* tf[d][b]: the number of tokens of d hashing to b
TermFreq(d, b) == Count(BodyOf(d), b)

\* df[b] in corpus c: the number of documents with a non-zero term
\* frequency at b
DocFreqIn(c, b) == Cardinality({d \in 1..Len(c) : Count(c[d][2], b) > 0})

DocFreq(b) == DocFreqIn(corpus, b)

\* the tf-idf vector and the (score, title) pair held for document d
TfIdfOf(d) == Flatten(tfidf)[d]

ZippedOf(d) == Flatten(zippedResults)[d]

QueryVector == HashingTF_transform(query)

RECURSIVE DotOver(_, _, _)
DotOver(S, qv, v) ==
  IF S = {} THEN 0
  ELSE LET b == Min(S)
       IN  qv[b] * GetItem(v, b) + DotOver(S \ {b}, qv, v)

\* the sum over the buckets b of qv of qv[b] * v[b]
Dot(qv, v) == DotOver(DOMAIN qv, qv, v)

Scored == pc \in {"sort", "done"}

(***************************************************************************)
(* C1: the list returned by the query step is sorted by score descending   *)
(* with ties between equal-score documents broken by document ID (corpus   *)
(* line position) ascending, and it is the same list for every             *)
(* partitioning of the corpus and every order in which the partitions are  *)
(* processed: the first num documents of the corpus ranked by score        *)
(* descending, then position ascending, each with its score and title.     *)
(***************************************************************************)
C1_RankedByScoreThenDocId ==
  pc = "done" =>
    LET c == corpus
        score(d) == Count(c[d][2], QueryHashValue) * idf.idf[QueryHashValue]
        before(e, d) ==
          score(e) > score(d) \/ (score(e) = score(d) /\ e < d)
        rank(d) == Cardinality({e \in 1..Len(c) : before(e, d)}) + 1
    IN  /\ \A i \in 1..(Len(results) - 1) :
             \/ results[i][1] > results[i + 1][1]
             \/ /\ results[i][1] = results[i + 1][1]
                /\ DocId(results[i][2]) < DocId(results[i + 1][2])
        /\ Len(results) = Min({num, Len(c)})
        /\ \A d \in 1..Len(c) :
             rank(d) <= Len(results) =>
               results[rank(d)] = <<score(d), c[d][1]>>

\* two partitions: a tie between the last document of the first and the
\* first document of the second, and the first document moved behind both
C1_Witness ==
  /\ pc = "done"
  /\ Len(rawData) = 2
  /\ Len(results) = 3
  /\ results[1][1] = results[2][1]
  /\ results[2][1] > results[3][1]
  /\ results[1][2] = rawData[1][Len(rawData[1])][1]
  /\ results[2][2] = rawData[2][1][1]
  /\ results[3][2] = rawData[1][1][1]

(***************************************************************************)
(* C2: a query none of whose buckets has a non-zero weight in any document *)
(* (an absent bucket, an empty token sequence, buckets forced to idf = 0)  *)
(* returns an empty result list and raises no error.                       *)
(***************************************************************************)
NoActiveBucket ==
  \A d \in DocIds : \A b \in DOMAIN QueryVector : GetItem(TfIdfOf(d), b) = 0

C2_NoMatchGivesEmptyResult ==
  /\ pc # "query_error"
  /\ (pc = "done" /\ NoActiveBucket) => results = <<>>

(***************************************************************************)
(* C3: on the corpus D1 = [tabriz, iran], D2 = [tabriz, carpet],           *)
(* D3 = [paris, france] with minDocFreq = 1 the query [tabriz] with K = 2  *)
(* returns exactly [D1, D2]; in general a document with no non-zero entry  *)
(* at any query bucket is never returned and at most K results are         *)
(* returned.                                                               *)
(***************************************************************************)
ScenarioBodies ==
  <<<<"tabriz", "iran">>, <<"tabriz", "carpet">>, <<"paris", "france">>>>

InScenario ==
  /\ pc = "done"
  /\ Len(corpus) = 3
  /\ \A d \in 1..3 : BodyOf(d) = ScenarioBodies[d]
  /\ idf.minDocFreq = 1
  /\ query = <<"tabriz">>
  /\ num = 2

C3_ScenarioReturnsD1D2 ==
  /\ InScenario => [i \in 1..Len(results) |-> results[i][2]] = <<"D1", "D2">>
  /\ pc = "done" =>
       /\ Len(results) <= num
       /\ \A i \in 1..Len(results) :
            \E b \in DOMAIN QueryVector :
              GetItem(TfIdfOf(DocId(results[i][2])), b) # 0

(***************************************************************************)
(* C4 as stated: for every query token sequence and every document d the   *)
(* score used for ranking d is the sum over the buckets b of the query     *)
(* vector qv of qv[b] * tfidf[d][b].                                       *)
(***************************************************************************)
C4_ScoreIsDotProduct ==
  Scored => \A d \in DocIds : ZippedOf(d)[1] = Dot(QueryVector, TfIdfOf(d))

(***************************************************************************)
(* C4 as amended: for every non-empty query token sequence and every       *)
(* document d the score used for ranking d is tfidf[d][b0], b0 the         *)
(* smallest bucket of the query vector qv (0 for a missing entry); it is   *)
(* the sum over the buckets b of qv of qv[b] * tfidf[d][b] when qv holds   *)
(* that one bucket with a count of 1.                                      *)
(***************************************************************************)
C4_ScoreIsFirstBucketWeight ==
  Scored =>
    LET qv == QueryVector
        t  == Flatten(tfidf)
        z  == Flatten(zippedResults)
    IN  /\ DOMAIN qv # {}
        /\ \A d \in 1..Len(t) :
             /\ z[d][1] = GetItem(t[d], Min(DOMAIN qv))
             /\ (DOMAIN qv = {Min(DOMAIN qv)} /\ qv[Min(DOMAIN qv)] = 1)
                => z[d][1] = Dot(qv, t[d])

C4_Witness ==
  /\ pc = "sort"
  /\ query = <<"iran", "tabriz">>
  /\ \E d \in DocIds :
       /\ ZippedOf(d)[1] > 0
       /\ ZippedOf(d)[1] # Dot(QueryVector, TfIdfOf(d))

(***************************************************************************)
(* C5: the document-frequency vector df and the document count N that the  *)
(* IDF fit step ends with are those of the corpus, whatever the            *)
(* partitioning and whatever the order in which the partial results are    *)
(* merged: N is the number of documents and df[b] the number of documents  *)
(* with a non-zero term frequency at b.  Whether the fit ends at all is    *)
(* decided by the corpus too: it fails exactly on a line without a tab.    *)
(***************************************************************************)
C5_DfAndNOrderIndependent ==
  LET c == corpus
      tabless == {d \in 1..Len(c) : c[d] = EmptyLine}
  IN  /\ pc = "build_error" => tabless # {}
      /\ \A p \in PartIds :
           (pc = "fit" /\ aggregated(p)) =>
             /\ tabless = {}
             /\ aggs[p].m = Len(c)
             /\ \A b \in Buckets : aggs[p].df[b] = DocFreqIn(c, b)

C5_Witness ==
  /\ pc = "fit"
  /\ Len(rawData) = 2
  /\ aggregated(2)
  /\ \E b \in Buckets : aggs[2].df[b] = 2 /\ aggs[2].df[b] < aggs[2].m

(***************************************************************************)
(* C6: in the IDF vector every bucket whose document frequency is below    *)
(* minDocFreq has idf 0, and when minDocFreq exceeds every bucket's        *)
(* document frequency every tf-idf vector is all zero.                     *)
(***************************************************************************)
C6_BelowMinDocFreqIsZero ==
  idf # NoModel =>
    LET c  == corpus
        df == [b \in Buckets |-> DocFreqIn(c, b)]
        t  == Flatten(tfidf)
    IN  /\ \A b \in Buckets : df[b] < idf.minDocFreq => idf.idf[b] = 0
        /\ (tfidf # <<>> /\ \A b \in Buckets : df[b] < idf.minDocFreq) =>
             \A d \in 1..Len(c) : \A b \in Buckets : GetItem(t[d], b) = 0

C6_Witness ==
  /\ tfidf # <<>>
  /\ idf.minDocFreq = 2
  /\ \E b \in Buckets : DocFreq(b) = 1 /\ idf.idf[b] = 0
  /\ \E b \in Buckets : DocFreq(b) >= 2 /\ idf.idf[b] > 0

(***************************************************************************)
(* C7: the weight held in the index for document d and bucket b is         *)
(* tf[d][b] * idf[b], tf[d][b] the number of tokens of d hashing to b;     *)
(* buckets whose product is 0 are not stored, and a bucket with            *)
(* idf[b] = 0 contributes nothing regardless of term frequency.            *)
(***************************************************************************)
C7_ZeroProductsNotStored ==
  tfidf # <<>> =>
    LET c == corpus
        t == Flatten(tfidf)
    IN  \A d \in 1..Len(c) :
          /\ \A b \in Buckets :
               /\ GetItem(t[d], b) = Count(c[d][2], b) * idf.idf[b]
               /\ idf.idf[b] = 0 => GetItem(t[d], b) = 0
          /\ \A b \in DOMAIN t[d] : t[d][b] # 0

(***************************************************************************)
(* What the index does hold: the value read for document d and bucket b is *)
(* tf[d][b] * idf[b], and the stored buckets are exactly those with a      *)
(* non-zero term frequency, their product being 0 or not.                  *)
(***************************************************************************)
StoredOnTfBuckets ==
  tfidf # <<>> =>
    LET c == corpus
        t == Flatten(tfidf)
    IN  \A d \in 1..Len(c) :
          /\ \A b \in Buckets :
               GetItem(t[d], b) = Count(c[d][2], b) * idf.idf[b]
          /\ DOMAIN t[d] = {b \in Buckets : Count(c[d][2], b) > 0}

(***************************************************************************)
(* C8: the IDF vector is computed only from a document-frequency vector    *)
(* into which every document of the corpus has been aggregated, and no     *)
(* query score exists before the df reduction and the IDF computation      *)
(* have both completed.                                                    *)
(***************************************************************************)
C8_FullDfBeforeIdfBeforeScores ==
  /\ idf # NoModel =>
       LET c == corpus
       IN  /\ fitInput.m = Len(c)
           /\ \A b \in Buckets : fitInput.df[b] = DocFreqIn(c, b)
           /\ \A p \in PartIds : status[p] = "merged"
  /\ (QueryHashValue # NoHash \/ zippedResults # <<>> \/ results # <<>>) =>
       /\ idf # NoModel
       /\ tfidf # <<>>
  /\ tfidf # <<>> => idf # NoModel

C8_Witness ==
  /\ pc = "done"
  /\ Len(rawData) = 2
  /\ fitInput.m = 3
  /\ \E i \in 1..Len(results) : results[i][1] > 0

(***************************************************************************)
(* C10: every score is paired with the title of the corpus line it was     *)
(* computed from: the i-th element of QueryRelevance zipped with titles is *)
(* (score of document i, title of document i) for every partitioning, and  *)
(* a returned title belongs to the document whose weight gave its rank.    *)
(***************************************************************************)
C10_ScorePairedWithOwnTitle ==
  Scored =>
    LET c == corpus
        z == Flatten(zippedResults)
        score(d) == Count(c[d][2], QueryHashValue) * idf.idf[QueryHashValue]
    IN  /\ Len(z) = Len(c)
        /\ \A d \in 1..Len(c) : z[d] = <<score(d), c[d][1]>>
        /\ \A p \in PartIds : \A i \in 1..Len(rawData[p]) :
             zippedResults[p][i][2] = rawData[p][i][1]
        /\ \A i \in 1..Len(results) :
             results[i][1] = score(DocId(results[i][2]))

C10_Witness ==
  /\ pc = "done"
  /\ Len(rawData) = 2
  /\ \E p \in PartIds : \E i, j \in 1..Len(rawData[p]) :
       zippedResults[p][i][1] > zippedResults[p][j][1]
         /\ zippedResults[p][j][1] > 0
  /\ Len(results) = 2

(***************************************************************************)
(* The parts of C9 on the title and the body: the tokens seen before the   *)
(* first tab-bearing token are accumulated as the title and written        *)
(* unfiltered exactly when a tab-bearing token is reached; every lemma     *)
(* written is that of a token after it which is not a stop word, is not    *)
(* punctuation and is in the English dictionary or the Wikipedia title     *)
(* words; nothing is written while passed_title is false; line 124 writes  *)
(* its newline once, at the end of the line.                               *)
(***************************************************************************)
TabsSeen == {i \in 1..pos : hasTab(doc[i])}

\* the orth_ of the tokens before the first tab-bearing token seen, or of
\* all the tokens seen when there is none
TitleTokens ==
  LET n == IF TabsSeen = {} THEN pos ELSE Min(TabsSeen) - 1
  IN  [i \in 1..n |-> doc[i].orth]

\* the positions whose token caused a write
Writers ==
  {i \in 1..pos :
     \/ hasTab(doc[i])
     \/ (\E t \in TabsSeen : t < i) /\ keep(doc[i])}

WrittenFor(i) ==
  IF hasTab(doc[i]) THEN Flatten(TitleTokens) \o doc[i].orth
  ELSE doc[i].lemma \o <<" ">>

ExpectedOut ==
  LET w == SortedSeq(Writers)
      body == [k \in 1..Len(w) |-> WrittenFor(w[k])]
  IN  IF ppc = "eol" THEN Append(body, <<NL>>) ELSE body

IsLemmaWrite(x) == x[Len(x)] = " "

LemmaOf(x) == SubSeq(x, 1, Len(x) - 1)

TitleAndBodyWrites ==
  /\ out = ExpectedOut
  /\ title_words = TitleTokens
  /\ passed_title <=> TabsSeen # {}
  /\ ~passed_title => \A k \in 1..Len(out) : out[k] = <<NL>>
  /\ \A k \in 1..Len(out) :
       IsLemmaWrite(out[k]) =>
         /\ LemmaOf(out[k]) \notin stop_words
         /\ LemmaOf(out[k]) \in english_vocab \cup wiki_title_words
         /\ \E i \in Writers :
              doc[i].lemma = LemmaOf(out[k]) /\ doc[i].pos # "PUNCT"

\* the number of newline characters written for the line
NewlinesWritten ==
  LET text == Flatten(out)
  IN  Cardinality({k \in 1..Len(text) : text[k] = NL})

(***************************************************************************)
(* C9: in the preprocessing loop, for every input line, the tokens seen    *)
(* before the tab-bearing token are accumulated as the title and written   *)
(* unfiltered exactly when the tab-bearing token is reached; every lemma   *)
(* written after that point is not a stop word, is not punctuation and is  *)
(* in the English dictionary or the Wikipedia title words; no lemma is     *)
(* written while passed_title is false; exactly one newline is written per *)
(* input line.                                                             *)
(***************************************************************************)
C9_TitleThenFilteredBodyOneNewline ==
  /\ TitleAndBodyWrites
  /\ ppc = "eol" => NewlinesWritten = 1

=============================================================================
